---- MODULE Spec2Model ----
(***************************************************************************)
(* Study-record tracker (piro7527/kokushi_20th_idea).                      *)
(*                                                                         *)
(* Two variants of app.js are modelled side by side:                       *)
(*   "local"  - src/unnamed/part_000: no authentication, one localStorage  *)
(*              key kokushi_records for the record list, all handlers      *)
(*              synchronous;                                               *)
(*   "remote" - src/study-record-app/app.js: users/{id} and students/{id}  *)
(*              documents in Firestore, handlers are async functions that  *)
(*              suspend at every await of a store call.                    *)
(* The variant is chosen in Init and never changes.  One action is one     *)
(* run-to-completion turn of the JavaScript event loop: a handler up to    *)
(* its first await (or its end), or the completion of a store call         *)
(* together with the continuation that follows it up to the next await.    *)
(*                                                                         *)
(* Strings the code inspects character by character (ids, count inputs)    *)
(* are sequences of UTF-16 code units.  An absent value (null, undefined,  *)
(* a missing localStorage key, a missing document) is the empty sequence   *)
(* and a present value v is <<v>>.                                         *)
(***************************************************************************)
EXTENDS Integers, Sequences, FiniteSets, TLC

(* ------------------------------ bounds -------------------------------- *)

\* most records created in one run
MaxSubmits == 2
\* largest reading of Date.now()
MaxClock == 2
\* most store calls in flight at once (remote variant)
MaxPending == 2
\* most store failures (a throwing setItem, a rejected Firestore call) in one run
MaxFaults == 1
\* largest attempted count of the rate table (SpecRate)
MaxAttempted == 40
\* longest record list the chart is drawn from at the start (SpecChart)
MaxChartRecords == 22

(* ------------------------- optional values ---------------------------- *)

Null == <<>>
Some(v) == <<v>>
IsNull(o) == o = <<>>
Val(o) == o[1]

(* ------------------------- character helpers -------------------------- *)

\* code units String.prototype.trim removes (those the inputs use)
IsSpace(c) == c \in {9, 10, 13, 32, 160, 12288}

RECURSIVE TrimLeft(_)
TrimLeft(s) == IF s # <<>> /\ IsSpace(Head(s)) THEN TrimLeft(Tail(s)) ELSE s

RECURSIVE TrimRight(_)
TrimRight(s) ==
    IF s # <<>> /\ IsSpace(s[Len(s)]) THEN TrimRight(SubSeq(s, 1, Len(s) - 1)) ELSE s

Trim(s) == TrimRight(TrimLeft(s))

\* String.prototype.toUpperCase on ASCII and full-width Latin letters
UpperChar(c) ==
    IF (c >= 97 /\ c <= 122) \/ (c >= 65345 /\ c <= 65370) THEN c - 32 ELSE c

ToUpperCase(s) == [i \in 1..Len(s) |-> UpperChar(s[i])]

\* the character class [Ａ-Ｚａ-ｚ０-９] of normalizeId
IsFullWidthAlnum(c) ==
    \/ (c >= 65313 /\ c <= 65338)
    \/ (c >= 65345 /\ c <= 65370)
    \/ (c >= 65296 /\ c <= 65305)

\* s.charCodeAt(0) - 0xFEE0
FoldChar(c) == IF IsFullWidthAlnum(c) THEN c - 65248 ELSE c

\* normalizeId of the remote variant
normalizeId(str) ==
    IF str = <<>> THEN <<>>
    ELSE ToUpperCase(Trim([i \in 1..Len(str) |-> FoldChar(str[i])]))

\* elements.studentIdInput.value.trim().toUpperCase() of the local variant
LocalId(str) == ToUpperCase(Trim(str))

(* ------------------------------ parseInt ------------------------------ *)

IsDigit(c) == c >= 48 /\ c <= 57

RECURSIVE DigitPrefix(_)
\* the longest prefix of decimal digits
DigitPrefix(s) ==
    IF s # <<>> /\ IsDigit(Head(s)) THEN <<Head(s)>> \o DigitPrefix(Tail(s)) ELSE <<>>

RECURSIVE DigitsValue(_)
DigitsValue(d) ==
    IF d = <<>> THEN 0
    ELSE 10 * DigitsValue(SubSeq(d, 1, Len(d) - 1)) + (d[Len(d)] - 48)

NaN == [nan |-> TRUE, val |-> 0]
Num(n) == [nan |-> FALSE, val |-> n]

\* parseInt(string) with no radix, on decimal input: leading white space is
\* skipped, one sign is read, digits are read up to the first other character;
\* no digit at all gives NaN.
parseInt(s) ==
    LET t == TrimLeft(s)
        neg == t # <<>> /\ Head(t) = 45
        signed == t # <<>> /\ Head(t) \in {43, 45}
        body == IF signed THEN Tail(t) ELSE t
        d == DigitPrefix(body)
    IN  IF d = <<>> THEN NaN
        ELSE Num(IF neg THEN 0 - DigitsValue(d) ELSE DigitsValue(d))

(* ------------------------------ inputs -------------------------------- *)

\* "a1", full-width "ａ１", " A1 ", "B2" and the empty string
RawIds == { <<>>, <<97, 49>>, <<65345, 65297>>, <<32, 65, 49, 32>>, <<66, 50>> }

\* display names as typed (already trimmed) and the empty string
NameInputs == { "", "Tanaka" }

\* passwords as typed: "", "abc", "pass"
PasswordInputs == { <<>>, <<97, 98, 99>>, <<112, 97, 115, 115>> }

\* the <select> of subject fields: no choice, or a field
FieldInputs == { "", "anatomy" }

\* text of the attempted-count input: "", "x", "-1", "2"
AttemptedInputs == { <<>>, <<120>>, <<45, 49>>, <<50>> }

\* text of the correct-count input: "", "x", "-1", "1", "3"
CorrectInputs == { <<>>, <<120>>, <<45, 49>>, <<49>>, <<51>> }

(* ----------------------------- simpleHash ----------------------------- *)

\* A 32-bit integer is kept as its two 16-bit halves << high, low >>, so
\* that no intermediate value leaves the range of the arithmetic.
\* One turn of the loop of simpleHash:
\*   hash = ((hash << 5) - hash) + char;  hash = hash & hash
\* which leaves (31 * hash + char) modulo 2^32.
HashStep(hash, char) ==
    LET low == hash[2] * 31 + char
        high == hash[1] * 31 + (low \div 65536)
    IN  << high % 65536, low % 65536 >>

RECURSIVE simpleHashFrom(_, _)
simpleHashFrom(hash, str) ==
    IF str = <<>> THEN hash
    ELSE simpleHashFrom(HashStep(hash, Head(str)), Tail(str))

\* simpleHash(str); hash.toString(16) renders the 32-bit integer one-to-one,
\* so the integer stands for its hexadecimal text
simpleHash(str) == simpleHashFrom(<< 0, 0 >>, str)

(* ------------------------------ records ------------------------------- *)

(* ---- IEEE 754 double arithmetic of (correct / attempted) * 100 ------- *)

\* A positive double is [limbs, exp].  Its 53-bit significand is a leading 1
\* followed by 52 bits kept as four 13-bit limbs << l1, l2, l3, l4 >>, most
\* significant first; read as the binary fraction 0.1 l1 l2 l3 l4 it is
\* multiplied by 2^exp.  (8192 = 2^13.)

RECURSIVE Pow2(_)
Pow2(k) == IF k = 0 THEN 1 ELSE 2 * Pow2(k - 1)

RECURSIVE Normalized(_, _, _)
\* n / d as (n' / d') * 2^e with 1/2 <= n' / d' < 1
Normalized(n, d, e) ==
    IF n >= d THEN Normalized(n, 2 * d, e + 1)
    ELSE IF 2 * n < d THEN Normalized(2 * n, d, e - 1)
    ELSE [n |-> n, d |-> d, e |-> e]

\* the next double above the one with these limbs: the limbs plus one in
\* the last place, or 1/2 * 2^(exp + 1) when they are all ones
PlusOne(limbs, exp) ==
    IF limbs[4] < 8191
    THEN [limbs |-> << limbs[1], limbs[2], limbs[3], limbs[4] + 1 >>, exp |-> exp]
    ELSE IF limbs[3] < 8191
    THEN [limbs |-> << limbs[1], limbs[2], limbs[3] + 1, 0 >>, exp |-> exp]
    ELSE IF limbs[2] < 8191
    THEN [limbs |-> << limbs[1], limbs[2] + 1, 0, 0 >>, exp |-> exp]
    ELSE IF limbs[1] < 8191
    THEN [limbs |-> << limbs[1] + 1, 0, 0, 0 >>, exp |-> exp]
    ELSE [limbs |-> << 0, 0, 0, 0 >>, exp |-> exp + 1]

\* round to nearest, ties to even: limbs are the leading 53 bits, up tells
\* whether what was cut off calls for the next double
RoundedDouble(limbs, exp, up) ==
    IF up THEN PlusOne(limbs, exp) ELSE [limbs |-> limbs, exp |-> exp]

\* the double n / d of two positive integers (d below 2^17)
Divide(n, d) ==
    LET f == Normalized(n, d, 0)
        r0 == 2 * f.n - f.d
        r1 == (r0 * 8192) % f.d
        r2 == (r1 * 8192) % f.d
        r3 == (r2 * 8192) % f.d
        r4 == (r3 * 8192) % f.d
        limbs == << (r0 * 8192) \div f.d, (r1 * 8192) \div f.d,
                    (r2 * 8192) \div f.d, (r3 * 8192) \div f.d >>
        up == \/ 2 * r4 > f.d
              \/ (2 * r4 = f.d /\ limbs[4] % 2 = 1)
    IN  RoundedDouble(limbs, f.e, up)

\* the double x * 100.  The exact product of the significand and 100 has 6
\* or 7 more bits, which are cut off again.
Times100(x) ==
    LET t4 == x.limbs[4] * 100
        t3 == x.limbs[3] * 100 + (t4 \div 8192)
        t2 == x.limbs[2] * 100 + (t3 \div 8192)
        t1 == x.limbs[1] * 100 + (t2 \div 8192)
        top == 100 + (t1 \div 8192)
        s == IF top < 128 THEN 6 ELSE 7
        k == Pow2(s)
        m == Pow2(13 - s)
        limbs == << ((t1 % 8192) \div k) + (top % k) * m,
                    ((t2 % 8192) \div k) + ((t1 % 8192) % k) * m,
                    ((t3 % 8192) \div k) + ((t2 % 8192) % k) * m,
                    ((t4 % 8192) \div k) + ((t3 % 8192) % k) * m >>
        cut == (t4 % 8192) % k
        up == \/ 2 * cut > k
              \/ (2 * cut = k /\ limbs[4] % 2 = 1)
    IN  RoundedDouble(limbs, x.exp + s, up)

\* Math.round(x) of a positive double below 2^13: the integer part, plus one
\* when the fraction is 1/2 or more
MathRound(x) ==
    IF x.exp < 0 THEN 0
    ELSE LET high == 8192 + x.limbs[1]
         IN  (high \div Pow2(14 - x.exp)) + ((high \div Pow2(13 - x.exp)) % 2)

\* Math.round((correct / attempted) * 100) for attempted > 0, correct >= 0;
\* 0 / attempted is the double 0 and so is its product with 100
RoundPercent(correct, attempted) ==
    IF correct = 0 THEN 0 ELSE MathRound(Times100(Divide(correct, attempted)))

\* rate: attempted > 0 ? Math.round((correct / attempted) * 100) : 0
Rate(attempted, correct) ==
    IF attempted > 0 THEN RoundPercent(correct, attempted) ELSE 0

\* now.toLocaleDateString('ja-JP'): the day the reading of the clock (in
\* milliseconds) falls on, as the number of the day
DateOf(now) == now \div 86400000

\* now.toLocaleTimeString('ja-JP', { hour: '2-digit', minute: '2-digit' }):
\* the minute of that day
TimeOf(now) == (now % 86400000) \div 60000

\* the record literal of handleRecordSubmit in the local variant (the owner
\* is written to the property oderId)
LocalRecord(user, field, attempted, correct, now) ==
    [ id |-> now, oderId |-> user.id, userName |-> user.name, field |-> field,
      attempted |-> attempted, correct |-> correct,
      rate |-> Rate(attempted, correct), date |-> DateOf(now), time |-> TimeOf(now),
      timestamp |-> now ]

\* the record literal of handleRecordSubmit in the remote variant
RemoteRecord(user, field, attempted, correct, now) ==
    [ id |-> now, userId |-> user.id, userName |-> user.name, field |-> field,
      attempted |-> attempted, correct |-> correct,
      rate |-> Rate(attempted, correct), date |-> DateOf(now), time |-> TimeOf(now),
      timestamp |-> now ]

\* r.userId as JavaScript reads it: undefined when the property is missing
UserIdOf(r) == IF "userId" \in DOMAIN r THEN Some(r.userId) ELSE Null

\* records.filter(r => r.id !== recordId)
RECURSIVE FilterOut(_, _)
FilterOut(list, recordId) ==
    IF list = <<>> THEN <<>>
    ELSE IF Head(list).id # recordId
         THEN <<Head(list)>> \o FilterOut(Tail(list), recordId)
         ELSE FilterOut(Tail(list), recordId)

\* records.unshift(record)
Unshift(list, record) == <<record>> \o list

(* ------------------------------- state -------------------------------- *)

VARIABLES
    variant,       \* "local" (part_000) or "remote" (study-record-app/app.js)
    clock,         \* the reading of Date.now() / new Date()
    currentUser,   \* let currentUser: Null or <<user>>
    records,       \* let records: the in-memory list, newest first
    slot,          \* localStorage[kokushi_user]: Null or <<user>>
    localRecords,  \* localStorage[kokushi_records]: Null or <<list>> (local)
    users,         \* Firestore users/{id}: Null or <<document>> (remote)
    students,      \* Firestore students/{id}: Null or <<document>> (remote)
    section,       \* which of the auth / main sections is not hidden
    viewRecords,   \* the list updateDisplay last rendered (stats, table, chart)
    toast,         \* the message of the toast showToast last put up
    pending,       \* store calls in flight, in the order they were issued
    loginBusy,     \* the login button is disabled by setLoading
    regBusy,       \* the registration button is disabled by setLoading
    submitBusy,    \* the record-form button is disabled by setLoading
    faults,        \* how many store calls have failed so far
    created,       \* how many records have been created so far
    peer           \* handleRegistration in a second browser on the same store

vars == << variant, clock, currentUser, records, slot, localRecords, users,
           students, section, viewRecords, toast, pending, loginBusy, regBusy,
           submitBusy, faults, created, peer >>

\* the second browser before its registration form is submitted; at is the
\* await its handleRegistration has reached, uid, name and pw are its locals
PeerIdle == [ at |-> "idle", uid |-> <<>>, name |-> "", pw |-> <<>> ]

\* the normalized ids that can name a Firestore document
DocIds == { normalizeId(r) : r \in RawIds } \ { <<>> }

Init ==
    /\ variant \in { "local", "remote" }
    /\ clock = 1
    /\ currentUser = Null
    /\ records = <<>>
    /\ slot = Null
    /\ localRecords = Null
    /\ users = [u \in DocIds |-> Null]
    /\ students = [u \in DocIds |-> Null]
    /\ section = "auth"
    /\ viewRecords = <<>>
    /\ toast = "none"
    /\ pending = <<>>
    /\ loginBusy = FALSE
    /\ regBusy = FALSE
    /\ submitBusy = FALSE
    /\ faults = 0
    /\ created = 0
    /\ peer = PeerIdle

\* time passes between two turns of the event loop
Tick ==
    /\ clock < MaxClock
    /\ clock' = clock + 1
    /\ UNCHANGED << peer, variant, created, currentUser, records, slot, localRecords, users,
                    students, section, viewRecords, toast, pending, loginBusy,
                    regBusy, submitBusy, faults >>

\* a store call either succeeds or, while the fault budget lasts, fails
Outcome(ok) ==
    IF ok THEN faults' = faults ELSE faults < MaxFaults /\ faults' = faults + 1

(* ---------------------- local variant (part_000) ---------------------- *)

\* loadRecords: savedRecords ? JSON.parse(savedRecords) : []
LocalLoaded == IF IsNull(localRecords) THEN <<>> ELSE Val(localRecords)

\* DOMContentLoaded -> loadUser, on a fresh page (module state re-initialized)
LocalPageLoad ==
    /\ variant = "local"
    /\ pending' = <<>>
    /\ toast' = "none"
    /\ IF IsNull(slot)
       THEN /\ currentUser' = Null
            /\ records' = <<>>
            /\ section' = "auth"
            /\ viewRecords' = <<>>
       ELSE /\ currentUser' = slot
            /\ section' = "main"
            /\ records' = LocalLoaded
            /\ viewRecords' = LocalLoaded
    /\ UNCHANGED << peer, variant, created, clock, slot, localRecords, users, students,
                    loginBusy, regBusy, submitBusy, faults >>

\* handleRegistration
LocalRegistration(rawId, rawName) ==
    /\ variant = "local"
    /\ section = "auth"
    /\ LET studentId == LocalId(rawId)
           \* registeredAt: an ISO string no code reads back
           user == [id |-> studentId, name |-> rawName, registeredAt |-> "iso"]
       IN  IF studentId = <<>> \/ rawName = ""
           THEN /\ toast' = "regMissing"
                /\ UNCHANGED << currentUser, slot, section, records, viewRecords >>
           ELSE /\ currentUser' = Some(user)
                /\ slot' = Some(user)
                /\ section' = "main"
                /\ records' = LocalLoaded
                /\ viewRecords' = LocalLoaded
                /\ toast' = "registered"
    /\ UNCHANGED << peer, variant, created, clock, localRecords, users, students, pending,
                    loginBusy, regBusy, submitBusy, faults >>

\* handleLogout; confirmed is the answer to confirm()
LocalLogout(confirmed) ==
    /\ variant = "local"
    /\ section = "main"
    /\ IF confirmed
       THEN /\ currentUser' = Null
            /\ slot' = Null
            /\ section' = "auth"
       ELSE UNCHANGED << currentUser, slot, section >>
    /\ UNCHANGED << peer, variant, created, clock, records, localRecords, users, students,
                    viewRecords, toast, pending, loginBusy, regBusy, submitBusy,
                    faults >>

\* SubmitVerdict without its last check (correct > attempted)
SubmitVerdictUnordered(field, rawAttempted, rawCorrect) ==
    LET attempted == parseInt(rawAttempted)
        correct == parseInt(rawCorrect)
    IN  IF field = "" THEN "fieldMissing"
        ELSE IF attempted.nan \/ correct.nan THEN "notNumber"
        ELSE IF attempted.val < 0 \/ correct.val < 0 THEN "negative"
        ELSE "ok"

\* the four validation returns shared by both variants' handleRecordSubmit:
\* the toast of the first failing check, or "ok"
SubmitVerdict(field, rawAttempted, rawCorrect) ==
    LET attempted == parseInt(rawAttempted)
        correct == parseInt(rawCorrect)
    IN  IF field = "" THEN "fieldMissing"
        ELSE IF attempted.nan \/ correct.nan THEN "notNumber"
        ELSE IF attempted.val < 0 \/ correct.val < 0 THEN "negative"
        ELSE IF correct.val > attempted.val THEN "correctExceeds"
        ELSE "ok"

\* handleRecordSubmit; stored is FALSE when localStorage.setItem throws
LocalRecordSubmit(field, rawAttempted, rawCorrect, stored) ==
    /\ variant = "local"
    /\ section = "main"
    /\ LET verdict == SubmitVerdict(field, rawAttempted, rawCorrect)
           record == LocalRecord(Val(currentUser), field, parseInt(rawAttempted).val,
                                 parseInt(rawCorrect).val, clock)
       IN  IF verdict # "ok"
           THEN /\ toast' = verdict
                /\ stored
                /\ UNCHANGED << records, localRecords, viewRecords, faults, created >>
           ELSE IF IsNull(currentUser)
           THEN \* currentUser.id throws a TypeError
                /\ stored
                /\ UNCHANGED << records, localRecords, viewRecords, toast, faults,
                                created >>
           ELSE /\ created < MaxSubmits
                /\ created' = created + 1
                /\ records' = Unshift(records, record)
                /\ Outcome(stored)
                /\ IF stored
                   THEN /\ localRecords' = Some(records')
                        /\ viewRecords' = records'
                        /\ toast' = "saved"
                   ELSE UNCHANGED << localRecords, viewRecords, toast >>
    /\ UNCHANGED << peer, variant, clock, currentUser, slot, users, students, section,
                    pending, loginBusy, regBusy, submitBusy >>

\* the ids the rendered table offers a delete button for
Deletable == { viewRecords[i].id : i \in 1..Len(viewRecords) }

\* deleteRecord; stored is FALSE when localStorage.setItem throws
LocalDeleteRecord(recordId, confirmed, stored) ==
    /\ variant = "local"
    /\ section = "main"
    /\ IF confirmed
       THEN /\ records' = FilterOut(records, recordId)
            /\ Outcome(stored)
            /\ IF stored
               THEN /\ localRecords' = Some(records')
                    /\ viewRecords' = records'
                    /\ toast' = "deleted"
               ELSE UNCHANGED << localRecords, viewRecords, toast >>
       ELSE stored /\ UNCHANGED << records, localRecords, viewRecords, toast, faults >>
    /\ UNCHANGED << peer, variant, created, clock, currentUser, slot, users, students, section,
                    pending, loginBusy, regBusy, submitBusy >>

LocalNext ==
    \/ LocalPageLoad
    \/ \E rawId \in RawIds, rawName \in NameInputs :
          LocalRegistration(rawId, rawName)
    \/ \E confirmed \in BOOLEAN : LocalLogout(confirmed)
    \/ \E field \in FieldInputs, a \in AttemptedInputs, c \in CorrectInputs,
          stored \in BOOLEAN : LocalRecordSubmit(field, a, c, stored)
    \/ \E recordId \in Deletable, confirmed \in BOOLEAN, stored \in BOOLEAN :
          LocalDeleteRecord(recordId, confirmed, stored)

(* --------------- remote variant (study-record-app/app.js) ------------- *)

\* A store call in flight.  kind names the call and the continuation that
\* awaits it; uid is the document id; name, pw and payload are the locals the
\* continuation or the written document needs; then tells loadRecords' and
\* saveRecords' caller ("none": nobody awaits the call).
Task(kind, uid, name, pw, payload, then) ==
    [ kind |-> kind, uid |-> uid, name |-> name, pw |-> pw, payload |-> payload,
      then |-> then ]

\* the calls that write a document; Firestore sends one client's writes in
\* the order they were issued
IsWrite(task) == task.kind \in { "regSetUser", "regSetStudents", "push" }

\* task i may complete now: a read at any time, a write after earlier writes
CanComplete(i) ==
    /\ i \in 1..Len(pending)
    /\ IsWrite(pending[i]) => \A j \in 1..(i - 1) : ~IsWrite(pending[j])

\* pending without its i-th task
Without(i) == SubSeq(pending, 1, i - 1) \o SubSeq(pending, i + 1, Len(pending))

\* pending with its i-th task replaced by the next call of the same handler
Replaced(i, task) ==
    \* a write joins the write queue behind the writes already issued
    Append(Without(i), task)

\* the document { id, name, passwordHash, registeredAt } of handleRegistration
NewUser(studentId, studentName, password) ==
    [ id |-> studentId, name |-> studentName, passwordHash |-> simpleHash(password),
      registeredAt |-> "iso" ]

\* the document { studentId, studentName, records, lastUpdated } of
\* saveRecords and of handleRegistration
StudentDoc(studentId, studentName, list) ==
    [ studentId |-> studentId, studentName |-> studentName, records |-> list,
      lastUpdated |-> "iso" ]

\* what a get() of users/{uid} resolves to: the server's document under the
\* client's own writes still in flight (latency compensation)
RECURSIVE UsersView(_, _)
UsersView(uid, k) ==
    IF k = 0 THEN users[uid]
    ELSE IF pending[k].kind = "regSetUser" /\ pending[k].uid = uid
         THEN Some(NewUser(uid, pending[k].name, pending[k].pw))
         ELSE UsersView(uid, k - 1)

\* what a get() of students/{uid} resolves to, likewise
RECURSIVE StudentsView(_, _)
StudentsView(uid, k) ==
    IF k = 0 THEN students[uid]
    ELSE IF pending[k].kind \in { "regSetStudents", "push" } /\ pending[k].uid = uid
         THEN Some(StudentDoc(uid, pending[k].name, pending[k].payload))
         ELSE StudentsView(uid, k - 1)

\* loadRecords after its get: doc.exists && doc.data().records ? ... : []
Pulled(doc) == IF IsNull(doc) THEN <<>> ELSE Val(doc).records

\* the projection { id, name } handleLogin and handleRegistration keep
SessionUser(id, name) == [id |-> id, name |-> name]

\* DOMContentLoaded -> loadCurrentUser, on a fresh page: module state is
\* re-initialized and continuations of the old page never run
RemotePageLoad ==
    /\ variant = "remote"
    /\ toast' = "none"
    /\ records' = <<>>
    /\ viewRecords' = <<>>
    /\ loginBusy' = FALSE
    /\ regBusy' = FALSE
    /\ submitBusy' = FALSE
    /\ IF IsNull(slot)
       THEN /\ currentUser' = Null
            /\ section' = "auth"
            /\ pending' = <<>>
       ELSE /\ currentUser' = slot
            /\ section' = "main"
            /\ pending' = << Task("pull", Val(slot).id, "", <<>>, <<>>, "none") >>
    /\ UNCHANGED << peer, variant, created, clock, slot, localRecords, users, students, faults >>

\* handleLogin up to `await docRef.get()`
handleLogin(rawId, password) ==
    /\ variant = "remote"
    /\ section = "auth"
    /\ ~loginBusy
    /\ LET studentId == normalizeId(rawId)
       IN  IF studentId = <<>> \/ password = <<>>
           THEN /\ toast' = "loginMissing"
                /\ UNCHANGED << pending, loginBusy >>
           ELSE /\ Len(pending) < MaxPending
                /\ pending' = Append(pending,
                                     Task("loginGet", studentId, "", password, <<>>, "none"))
                /\ loginBusy' = TRUE
                /\ UNCHANGED toast
    /\ UNCHANGED << peer, variant, created, clock, currentUser, records, slot, localRecords, users,
                    students, section, viewRecords, regBusy, submitBusy, faults >>

\* LoginGetDone without the comparison of the password hashes
LoginGetDoneAnyPassword(i, ok) ==
    /\ variant = "remote"
    /\ CanComplete(i)
    /\ pending[i].kind = "loginGet"
    /\ Outcome(ok)
    /\ LET task == pending[i]
           doc == UsersView(task.uid, Len(pending))
       IN  IF ~ok
           THEN /\ toast' = "loginError"
                /\ loginBusy' = FALSE
                /\ pending' = Without(i)
                /\ UNCHANGED << currentUser, slot, section >>
           ELSE IF IsNull(doc)
           THEN /\ toast' = "unknownUser"
                /\ loginBusy' = FALSE
                /\ pending' = Without(i)
                /\ UNCHANGED << currentUser, slot, section >>
           ELSE /\ currentUser' = Some(SessionUser(Val(doc).id, Val(doc).name))
                /\ slot' = currentUser'
                /\ section' = "main"
                /\ pending' = Replaced(i, Task("pull", Val(doc).id, Val(doc).name,
                                               <<>>, <<>>, "login"))
                /\ UNCHANGED << toast, loginBusy >>
    /\ UNCHANGED << peer, variant, created, clock, records, localRecords, users, students,
                    viewRecords, regBusy, submitBusy >>

\* handleLogin from the resolution of docRef.get() to `await loadRecords()`
LoginGetDone(i, ok) ==
    /\ variant = "remote"
    /\ CanComplete(i)
    /\ pending[i].kind = "loginGet"
    /\ Outcome(ok)
    /\ LET task == pending[i]
           doc == UsersView(task.uid, Len(pending))
       IN  IF ~ok
           THEN /\ toast' = "loginError"
                /\ loginBusy' = FALSE
                /\ pending' = Without(i)
                /\ UNCHANGED << currentUser, slot, section >>
           ELSE IF IsNull(doc)
           THEN /\ toast' = "unknownUser"
                /\ loginBusy' = FALSE
                /\ pending' = Without(i)
                /\ UNCHANGED << currentUser, slot, section >>
           ELSE IF Val(doc).passwordHash # simpleHash(task.pw)
           THEN /\ toast' = "wrongPassword"
                /\ loginBusy' = FALSE
                /\ pending' = Without(i)
                /\ UNCHANGED << currentUser, slot, section >>
           ELSE /\ currentUser' = Some(SessionUser(Val(doc).id, Val(doc).name))
                /\ slot' = currentUser'
                /\ section' = "main"
                /\ pending' = Replaced(i, Task("pull", Val(doc).id, Val(doc).name,
                                               <<>>, <<>>, "login"))
                /\ UNCHANGED << toast, loginBusy >>
    /\ UNCHANGED << peer, variant, created, clock, records, localRecords, users, students,
                    viewRecords, regBusy, submitBusy >>

\* loadRecords from the resolution of its get(), and what the caller that
\* awaited it does next (handleLogin: the welcome toast and `finally`)
PullDone(i, ok) ==
    /\ variant = "remote"
    /\ CanComplete(i)
    /\ pending[i].kind = "pull"
    /\ Outcome(ok)
    /\ LET task == pending[i]
           doc == StudentsView(task.uid, Len(pending))
       IN  /\ IF ok
              THEN /\ records' = Pulled(doc)
                   /\ viewRecords' = records'
              ELSE UNCHANGED << records, viewRecords >>
           /\ toast' = IF task.then = "login" THEN "welcome"
                       ELSE IF ok THEN toast ELSE "loadError"
           /\ loginBusy' = IF task.then = "login" THEN FALSE ELSE loginBusy
           /\ pending' = Without(i)
    /\ UNCHANGED << peer, variant, created, clock, currentUser, slot, localRecords, users,
                    students, section, regBusy, submitBusy >>

\* handleRegistration up to `await docRef.get()`
handleRegistration(rawId, rawName, password, passwordConfirm) ==
    /\ variant = "remote"
    /\ section = "auth"
    /\ ~regBusy
    /\ LET studentId == normalizeId(rawId)
       IN  IF studentId = <<>> \/ rawName = "" \/ password = <<>>
           THEN /\ toast' = "regMissing"
                /\ UNCHANGED << pending, regBusy >>
           ELSE IF Len(password) < 4
           THEN /\ toast' = "passwordShort"
                /\ UNCHANGED << pending, regBusy >>
           ELSE IF password # passwordConfirm
           THEN /\ toast' = "passwordMismatch"
                /\ UNCHANGED << pending, regBusy >>
           ELSE /\ Len(pending) < MaxPending
                /\ pending' = Append(pending,
                                     Task("regGet", studentId, rawName, password, <<>>, "none"))
                /\ regBusy' = TRUE
                /\ UNCHANGED toast
    /\ UNCHANGED << peer, variant, created, clock, currentUser, records, slot, localRecords, users,
                    students, section, viewRecords, loginBusy, submitBusy, faults >>

\* RegGetDone without the `if (doc.exists)` return
RegGetDoneUnchecked(i, ok) ==
    /\ variant = "remote"
    /\ CanComplete(i)
    /\ pending[i].kind = "regGet"
    /\ Outcome(ok)
    /\ LET task == pending[i]
       IN  IF ~ok
           THEN /\ toast' = "regError"
                /\ regBusy' = FALSE
                /\ pending' = Without(i)
           ELSE /\ pending' = Replaced(i, Task("regSetUser", task.uid, task.name,
                                               task.pw, <<>>, "none"))
                /\ UNCHANGED << toast, regBusy >>
    /\ UNCHANGED << peer, variant, created, clock, currentUser, records, slot, localRecords, users,
                    students, section, viewRecords, loginBusy, submitBusy >>

\* handleRegistration from the resolution of docRef.get() to
\* `await docRef.set(newUser)`
RegGetDone(i, ok) ==
    /\ variant = "remote"
    /\ CanComplete(i)
    /\ pending[i].kind = "regGet"
    /\ Outcome(ok)
    /\ LET task == pending[i]
           doc == UsersView(task.uid, Len(pending))
       IN  IF ~ok
           THEN /\ toast' = "regError"
                /\ regBusy' = FALSE
                /\ pending' = Without(i)
           ELSE IF ~IsNull(doc)
           THEN /\ toast' = "duplicateUser"
                /\ regBusy' = FALSE
                /\ pending' = Without(i)
           ELSE /\ pending' = Replaced(i, Task("regSetUser", task.uid, task.name,
                                               task.pw, <<>>, "none"))
                /\ UNCHANGED << toast, regBusy >>
    /\ UNCHANGED << peer, variant, created, clock, currentUser, records, slot, localRecords, users,
                    students, section, viewRecords, loginBusy, submitBusy >>

\* handleRegistration from the resolution of docRef.set(newUser) to
\* `await db.collection('students').doc(studentId).set(...)`
RegSetUserDone(i, ok) ==
    /\ variant = "remote"
    /\ CanComplete(i)
    /\ pending[i].kind = "regSetUser"
    /\ Outcome(ok)
    /\ LET task == pending[i]
       IN  IF ~ok
           THEN /\ toast' = "regError"
                /\ regBusy' = FALSE
                /\ pending' = Without(i)
                /\ UNCHANGED << users, currentUser, slot >>
           ELSE /\ users' = [users EXCEPT ![task.uid] =
                                Some(NewUser(task.uid, task.name, task.pw))]
                /\ currentUser' = Some(SessionUser(task.uid, task.name))
                /\ slot' = currentUser'
                /\ pending' = Replaced(i, Task("regSetStudents", task.uid, task.name,
                                               <<>>, <<>>, "none"))
                /\ UNCHANGED << toast, regBusy >>
    /\ UNCHANGED << peer, variant, created, clock, records, localRecords, students, section,
                    viewRecords, loginBusy, submitBusy >>

\* handleRegistration from the resolution of the students/{id} set() to its end
RegSetStudentsDone(i, ok) ==
    /\ variant = "remote"
    /\ CanComplete(i)
    /\ pending[i].kind = "regSetStudents"
    /\ Outcome(ok)
    /\ LET task == pending[i]
       IN  IF ~ok
           THEN /\ toast' = "regError"
                /\ UNCHANGED << students, section, records, viewRecords >>
           ELSE /\ students' = [students EXCEPT ![task.uid] =
                                   Some(StudentDoc(task.uid, task.name, <<>>))]
                /\ section' = "main"
                /\ IF IsNull(currentUser)
                   THEN \* showMainSection throws at currentUser.id, after
                        \* un-hiding the main section; the catch reports it
                        /\ toast' = "regError"
                        /\ UNCHANGED << records, viewRecords >>
                   ELSE /\ records' = <<>>
                        /\ viewRecords' = <<>>
                        /\ toast' = "registered"
    /\ regBusy' = FALSE
    /\ pending' = Without(i)
    /\ UNCHANGED << peer, variant, created, clock, currentUser, slot, localRecords, users,
                    loginBusy, submitBusy >>

\* handleLogout; confirmed is the answer to confirm()
handleLogout(confirmed) ==
    /\ variant = "remote"
    /\ section = "main"
    /\ IF confirmed
       THEN /\ currentUser' = Null
            /\ records' = <<>>
            /\ slot' = Null
            /\ section' = "auth"
       ELSE UNCHANGED << currentUser, records, slot, section >>
    /\ UNCHANGED << peer, variant, created, clock, localRecords, users, students, viewRecords,
                    toast, pending, loginBusy, regBusy, submitBusy, faults >>

\* handleRecordSubmit up to `await saveRecords()`, saveRecords up to its
\* `await ...set(userDoc)`
handleRecordSubmit(field, rawAttempted, rawCorrect) ==
    /\ variant = "remote"
    /\ section = "main"
    /\ ~submitBusy
    /\ LET verdict == SubmitVerdict(field, rawAttempted, rawCorrect)
           user == Val(currentUser)
           record == RemoteRecord(user, field, parseInt(rawAttempted).val,
                                  parseInt(rawCorrect).val, clock)
       IN  IF verdict # "ok"
           THEN /\ toast' = verdict
                /\ UNCHANGED << records, pending, submitBusy, created >>
           ELSE IF IsNull(currentUser)
           THEN \* currentUser.id throws a TypeError after setLoading(btn, true)
                /\ submitBusy' = TRUE
                /\ UNCHANGED << records, pending, toast, created >>
           ELSE /\ created < MaxSubmits
                /\ created' = created + 1
                /\ Len(pending) < MaxPending
                /\ submitBusy' = TRUE
                /\ records' = Unshift(records, record)
                /\ pending' = Append(pending, Task("push", user.id, user.name, <<>>,
                                                   records', "submit"))
                /\ UNCHANGED toast
    /\ UNCHANGED << peer, variant, clock, currentUser, slot, localRecords, users, students,
                    section, viewRecords, loginBusy, regBusy, faults >>

\* deleteRecord up to `await saveRecords()`; with no current user saveRecords
\* returns at once and deleteRecord runs to its end
deleteRecord(recordId, confirmed) ==
    /\ variant = "remote"
    /\ section = "main"
    /\ IF ~confirmed
       THEN UNCHANGED << records, pending, viewRecords, toast >>
       ELSE /\ records' = FilterOut(records, recordId)
            /\ IF IsNull(currentUser)
               THEN /\ viewRecords' = records'
                    /\ toast' = "deleted"
                    /\ UNCHANGED pending
               ELSE /\ Len(pending) < MaxPending
                    /\ pending' = Append(pending,
                                         Task("push", Val(currentUser).id,
                                              Val(currentUser).name, <<>>, records',
                                              "delete"))
                    /\ UNCHANGED << viewRecords, toast >>
    /\ UNCHANGED << peer, variant, created, clock, currentUser, slot, localRecords, users, students,
                    section, loginBusy, regBusy, submitBusy, faults >>

\* saveRecords from the resolution or rejection of its set(), and the rest of
\* the handler that awaited it.  saveRecords catches the rejection itself,
\* so the handler's own catch never runs.
PushDone(i, ok) ==
    /\ variant = "remote"
    /\ CanComplete(i)
    /\ pending[i].kind = "push"
    /\ Outcome(ok)
    /\ LET task == pending[i]
       IN  /\ students' = IF ok
                          THEN [students EXCEPT ![task.uid] =
                                   Some(StudentDoc(task.uid, task.name, task.payload))]
                          ELSE students
           /\ viewRecords' = records
           /\ toast' = IF task.then = "submit" THEN "saved" ELSE "deleted"
           /\ submitBusy' = IF task.then = "submit" THEN FALSE ELSE submitBusy
           /\ pending' = Without(i)
    /\ UNCHANGED << peer, variant, created, clock, currentUser, records, slot, localRecords, users,
                    section, loginBusy, regBusy >>

RemoteNext ==
    \/ RemotePageLoad
    \/ \E rawId \in RawIds, password \in PasswordInputs : handleLogin(rawId, password)
    \/ \E rawId \in RawIds, rawName \in NameInputs, password \in PasswordInputs,
          passwordConfirm \in PasswordInputs :
          handleRegistration(rawId, rawName, password, passwordConfirm)
    \/ \E confirmed \in BOOLEAN : handleLogout(confirmed)
    \/ \E field \in FieldInputs, a \in AttemptedInputs, c \in CorrectInputs :
          handleRecordSubmit(field, a, c)
    \/ \E recordId \in Deletable, confirmed \in BOOLEAN : deleteRecord(recordId, confirmed)
    \/ \E i \in 1..Len(pending), ok \in BOOLEAN :
          \/ LoginGetDone(i, ok)
          \/ PullDone(i, ok)
          \/ RegGetDone(i, ok)
          \/ RegSetUserDone(i, ok)
          \/ RegSetStudentsDone(i, ok)
          \/ PushDone(i, ok)

(* ------------------------ CSV export (both files) --------------------- *)

\* r.field || ''
FieldOrEmpty(r) == IF r.field = "" THEN "" ELSE r.field

\* one line of exportToCSV before join(','): the columns in order.  join
\* renders an undefined element as the empty string.
CsvRow(r) ==
    << IF IsNull(UserIdOf(r)) THEN <<>> ELSE Val(UserIdOf(r)),
       r.userName, r.date, r.time, FieldOrEmpty(r), r.attempted, r.correct, r.rate >>

\* the lines of the file after the header line: records.map(...)
CsvRows(list) == [k \in 1..Len(list) |-> CsvRow(list[k])]

\* exportToCSV, the click handler of the export button
exportToCSV ==
    /\ section = "main"
    /\ IF records = <<>>
       THEN toast' = "csvEmpty"
       ELSE IF IsNull(currentUser)
       THEN \* currentUser.id in the file name throws a TypeError
            UNCHANGED toast
       ELSE toast' = "csvDownloaded"
    /\ UNCHANGED << peer, variant, clock, currentUser, records, slot, localRecords, users,
                    students, section, viewRecords, pending, loginBusy, regBusy,
                    submitBusy, faults, created >>

(* ------------- a second browser on the same Firestore project --------- *)

\* The second browser runs the same app.js against the same users and
\* students collections.  Its get() is answered from the server's documents:
\* the writes of the first browser that are still in flight are not in them.

\* handleRegistration in the second browser up to `await docRef.get()`; input
\* the checks turn away leaves the store and the first browser untouched
PeerRegistration(rawId, rawName, password, passwordConfirm) ==
    /\ variant = "remote"
    /\ peer.at = "idle"
    /\ normalizeId(rawId) # <<>> /\ rawName # "" /\ password # <<>>
    /\ Len(password) >= 4
    /\ password = passwordConfirm
    /\ peer' = [ at |-> "get", uid |-> normalizeId(rawId), name |-> rawName,
                 pw |-> password ]
    /\ UNCHANGED << variant, clock, currentUser, records, slot, localRecords, users,
                    students, section, viewRecords, toast, pending, loginBusy,
                    regBusy, submitBusy, faults, created >>

\* the second browser from the resolution of docRef.get() to
\* `await docRef.set(newUser)`
PeerGetDone(ok) ==
    /\ variant = "remote"
    /\ peer.at = "get"
    /\ Outcome(ok)
    /\ peer' = [peer EXCEPT !.at = IF ~ok THEN "error"
                                   ELSE IF ~IsNull(users[peer.uid]) THEN "duplicate"
                                   ELSE "setUser"]
    /\ UNCHANGED << variant, clock, currentUser, records, slot, localRecords, users,
                    students, section, viewRecords, toast, pending, loginBusy,
                    regBusy, submitBusy, created >>

\* the second browser from the resolution of docRef.set(newUser) to
\* `await db.collection('students').doc(studentId).set(...)`
PeerSetUserDone(ok) ==
    /\ variant = "remote"
    /\ peer.at = "setUser"
    /\ Outcome(ok)
    /\ IF ok
       THEN /\ users' = [users EXCEPT ![peer.uid] =
                            Some(NewUser(peer.uid, peer.name, peer.pw))]
            /\ peer' = [peer EXCEPT !.at = "setStudents"]
       ELSE /\ peer' = [peer EXCEPT !.at = "error"]
            /\ UNCHANGED users
    /\ UNCHANGED << variant, clock, currentUser, records, slot, localRecords,
                    students, section, viewRecords, toast, pending, loginBusy,
                    regBusy, submitBusy, created >>

\* the second browser from the resolution of the students/{id} set() to the
\* end of handleRegistration
PeerSetStudentsDone(ok) ==
    /\ variant = "remote"
    /\ peer.at = "setStudents"
    /\ Outcome(ok)
    /\ IF ok
       THEN /\ students' = [students EXCEPT ![peer.uid] =
                               Some(StudentDoc(peer.uid, peer.name, <<>>))]
            /\ peer' = [peer EXCEPT !.at = "registered"]
       ELSE /\ peer' = [peer EXCEPT !.at = "error"]
            /\ UNCHANGED students
    /\ UNCHANGED << variant, clock, currentUser, records, slot, localRecords, users,
                    section, viewRecords, toast, pending, loginBusy, regBusy,
                    submitBusy, created >>

PeerNext ==
    \/ \E rawId \in RawIds, rawName \in NameInputs, password \in PasswordInputs,
          passwordConfirm \in PasswordInputs :
          PeerRegistration(rawId, rawName, password, passwordConfirm)
    \/ \E ok \in BOOLEAN :
          \/ PeerGetDone(ok)
          \/ PeerSetUserDone(ok)
          \/ PeerSetStudentsDone(ok)

Next == Tick \/ LocalNext \/ RemoteNext \/ exportToCSV \/ PeerNext

Spec == Init /\ [][Next]_vars

(* ------------------- record management on its own --------------------- *)

\* The password both users of InitRecords registered with: "pass"
RegisteredPassword == << 112, 97, 115, 115 >>

\* A state Spec reaches: in the remote variant every id of DocIds has run
\* handleRegistration (name "Tanaka", password "pass"), the last one's
\* students/{id} write was rejected, everybody has logged out and the page
\* has been loaded again; in the local variant nothing has happened yet.
InitRecords ==
    /\ variant \in { "local", "remote" }
    /\ clock = 1
    /\ currentUser = Null
    /\ records = <<>>
    /\ slot = Null
    /\ localRecords = Null
    /\ users = [u \in DocIds |->
                   IF variant = "remote"
                   THEN Some(NewUser(u, "Tanaka", RegisteredPassword)) ELSE Null]
    /\ students = [u \in DocIds |->
                      IF variant = "remote" /\ u = normalizeId(<<97, 49>>)
                      THEN Some(StudentDoc(u, "Tanaka", <<>>)) ELSE Null]
    /\ section = "auth"
    /\ viewRecords = <<>>
    /\ toast = "none"
    /\ pending = <<>>
    /\ loginBusy = FALSE
    /\ regBusy = FALSE
    /\ submitBusy = FALSE
    /\ faults = 0
    /\ created = 0
    /\ peer = PeerIdle

\* every handler but the remote handleRegistration
NextRecords ==
    \/ Tick
    \/ LocalNext
    \/ RemotePageLoad
    \/ \E rawId \in RawIds, password \in PasswordInputs : handleLogin(rawId, password)
    \/ \E confirmed \in BOOLEAN : handleLogout(confirmed)
    \/ \E field \in FieldInputs, a \in AttemptedInputs, c \in CorrectInputs :
          handleRecordSubmit(field, a, c)
    \/ \E recordId \in Deletable, confirmed \in BOOLEAN : deleteRecord(recordId, confirmed)
    \/ \E i \in 1..Len(pending), ok \in BOOLEAN :
          \/ LoginGetDone(i, ok)
          \/ PullDone(i, ok)
          \/ PushDone(i, ok)

SpecRecords == InitRecords /\ [][NextRecords]_vars

(* ---------------------- one session on its own ------------------------ *)

\* A state SpecRecords reaches: the user A1 has just registered (local
\* variant) or logged in and loaded an empty list (remote variant).
InitSession ==
    /\ variant \in { "local", "remote" }
    /\ clock = 1
    /\ currentUser = Some(IF variant = "local"
                          THEN [id |-> << 65, 49 >>, name |-> "Tanaka",
                                registeredAt |-> "iso"]
                          ELSE SessionUser(<< 65, 49 >>, "Tanaka"))
    /\ slot = currentUser
    /\ records = <<>>
    /\ localRecords = Null
    /\ users = [u \in DocIds |->
                   IF variant = "remote"
                   THEN Some(NewUser(u, "Tanaka", RegisteredPassword)) ELSE Null]
    /\ students = [u \in DocIds |->
                      IF variant = "remote" /\ u = << 65, 49 >>
                      THEN Some(StudentDoc(u, "Tanaka", <<>>)) ELSE Null]
    /\ section = "main"
    /\ viewRecords = <<>>
    /\ toast = IF variant = "local" THEN "registered" ELSE "welcome"
    /\ pending = <<>>
    /\ loginBusy = FALSE
    /\ regBusy = FALSE
    /\ submitBusy = FALSE
    /\ faults = 0
    /\ created = 0
    /\ peer = PeerIdle

\* submissions and deletions of the user who is logged in
NextSession ==
    \/ Tick
    \/ \E field \in FieldInputs, a \in AttemptedInputs, c \in CorrectInputs,
          stored \in BOOLEAN : LocalRecordSubmit(field, a, c, stored)
    \/ \E recordId \in Deletable, confirmed \in BOOLEAN, stored \in BOOLEAN :
          LocalDeleteRecord(recordId, confirmed, stored)
    \/ \E field \in FieldInputs, a \in AttemptedInputs, c \in CorrectInputs :
          handleRecordSubmit(field, a, c)
    \/ \E recordId \in Deletable, confirmed \in BOOLEAN : deleteRecord(recordId, confirmed)
    \/ \E i \in 1..Len(pending), ok \in BOOLEAN : PushDone(i, ok)
    \/ exportToCSV

SpecSession == InitSession /\ [][NextSession]_vars

(* ------------------------- records: ownership ------------------------- *)

\* the owner a record names: the property userId (remote variant) or oderId
\* (local variant) its record literal writes
OwnerOf(r) == IF "userId" \in DOMAIN r THEN r.userId ELSE r.oderId

\* the ids a user of either variant can hold
UserIds == DocIds \cup ({ LocalId(r) : r \in RawIds } \ { <<>> })

\* what loadRecords returns when it runs for user u now
LoadedFor(u) ==
    IF variant = "local" THEN LocalLoaded ELSE Pulled(StudentsView(u, Len(pending)))

\* a turn of the local variant that runs loadRecords with a current user
LocalLoadStep ==
    /\ variant = "local"
    /\ ~IsNull(currentUser')
    /\ \/ LocalPageLoad
       \/ \E rawId \in RawIds, rawName \in NameInputs : LocalRegistration(rawId, rawName)

\* a turn of the local variant that runs saveRecords to its end
LocalSaveStep ==
    \/ \E field \in FieldInputs, a \in AttemptedInputs, c \in CorrectInputs :
          LocalRecordSubmit(field, a, c, TRUE) /\ created' = created + 1
    \/ \E recordId \in Deletable : LocalDeleteRecord(recordId, TRUE, TRUE)

\* C1: whenever loadRecords completes for a current user u, the list it puts
\* in memory is exactly the stored records whose owner is u, in stored order
\* (so only u's records, and the empty list when nothing is stored for u).
C1_LoadYieldsOwnRecords ==
    [][ LET Own(list, u) == SelectSeq(list, LAMBDA r : OwnerOf(r) = u)
        IN  /\ LocalLoadStep =>
                  records' = Own(LocalLoaded, Val(currentUser').id)
            /\ \A i \in 1..Len(pending) :
                  PullDone(i, TRUE) =>
                      records' = Own(LoadedFor(pending[i].uid), pending[i].uid)
      ]_vars

\* C2: after saveRecords has stored the list X of user u, a loadRecords for u
\* returns exactly X, and a loadRecords for any other user returns what it
\* returned before the save.
C2_SaveLoadRoundTrip ==
    [][ /\ LocalSaveStep =>
              /\ LocalLoaded' = records'
              /\ \A v \in UserIds \ { Val(currentUser).id } :
                    LoadedFor(v)' = LoadedFor(v)
        /\ \A i \in 1..Len(pending) :
              PushDone(i, TRUE) =>
                  /\ Pulled(students'[pending[i].uid]) = pending[i].payload
                  /\ \A v \in DocIds \ { pending[i].uid } : students'[v] = students[v]
      ]_vars

(* ------------------------- records: the push -------------------------- *)

\* the positions of pending that hold a saveRecords write
PushesInFlight == { i \in 1..Len(pending) : pending[i].kind = "push" }

\* C3: at most one saveRecords write is in flight at any time.
C3_OnePushInFlight == Cardinality(PushesInFlight) <= 1

\* C4: when the handler that awaited a push finishes, the view shows the
\* in-memory list, and the toast it puts up is the success toast only if the
\* push succeeded.
C4_SuccessOnlyIfPushed ==
    [][ \A i \in 1..Len(pending), ok \in BOOLEAN :
            PushDone(i, ok) =>
                /\ viewRecords' = records'
                /\ toast' \in { "saved", "deleted" } => ok
      ]_vars

\* C5: a failed push leaves the in-memory list as it is and leaves the error
\* toast on display; a successful push of the in-memory list with no other
\* push behind it leaves the stored list of the user equal to the in-memory
\* list.
C5_FailedPushKeepsAndReports ==
    [][ \A i \in 1..Len(pending) :
            /\ PushDone(i, FALSE) =>
                  /\ records' = records
                  /\ toast' = "saveError"
            /\ (PushDone(i, TRUE) /\ PushesInFlight = { i }
                   /\ pending[i].payload = records) =>
                  Pulled(students'[pending[i].uid]) = records'
      ]_vars

(* ------------------------ records: the list --------------------------- *)

\* the lists the store holds: kokushi_records and every students/{id}.records
StoredLists == { LocalLoaded } \cup { Pulled(students[u]) : u \in DocIds }

\* C6: in the in-memory list and in every stored list, two entries of the
\* same owner never have the same id.
C6_IdsDistinct ==
    \A list \in { records } \cup StoredLists :
        \A i, j \in 1..Len(list) :
            (i # j /\ OwnerOf(list[i]) = OwnerOf(list[j])) => list[i].id # list[j].id

\* C7: a confirmed deleteRecord(id) leaves the in-memory list without exactly
\* one entry, one whose id is id, the others in their order, or unchanged
\* when no entry has that id; a declined one changes neither the list nor the
\* store and issues no push.
C7_DeleteRemovesExactlyOne ==
    [][ LET RemoveAt(list, k) ==
                SubSeq(list, 1, k - 1) \o SubSeq(list, k + 1, Len(list))
            Has(list, id) == \E k \in 1..Len(list) : list[k].id = id
        IN  \A recordId \in Deletable :
              /\ ( \/ \E stored \in BOOLEAN : LocalDeleteRecord(recordId, TRUE, stored)
                   \/ deleteRecord(recordId, TRUE) ) =>
                    IF Has(records, recordId)
                    THEN \E k \in 1..Len(records) :
                            /\ records[k].id = recordId
                            /\ records' = RemoveAt(records, k)
                    ELSE records' = records
              /\ ( \/ \E stored \in BOOLEAN : LocalDeleteRecord(recordId, FALSE, stored)
                   \/ deleteRecord(recordId, FALSE) ) =>
                    UNCHANGED << records, localRecords, students, pending >>
      ]_vars

C9_SubmissionsPersistNewestFirst ==
    [][ faults' = 0 =>
          /\ \A field \in FieldInputs, a \in AttemptedInputs, c \in CorrectInputs :
                (LocalRecordSubmit(field, a, c, TRUE) /\ created' = created + 1) =>
                    LocalLoaded' = << records'[1] >> \o LocalLoaded
          /\ \A i \in 1..Len(pending) :
                (PushDone(i, TRUE) /\ pending[i].then = "submit") =>
                    Pulled(students'[pending[i].uid]) =
                        << pending[i].payload[1] >> \o Pulled(students[pending[i].uid])
      ]_vars

(* ----------------------- the rate of a record ------------------------- *)

RECURSIVE DecimalText(_)
\* String(n) of a non-negative integer: what the number input holds for n
DecimalText(n) ==
    IF n < 10 THEN << 48 + n >> ELSE Append(DecimalText(n \div 10), 48 + (n % 10))

\* the counts the rate table is taken over
RateCounts == 0..MaxAttempted

\* A state SpecRecords reaches (but for the range of the counts): the user A1
\* is on the main section and has deleted the records created so far; one
\* more record can be created.
InitRate ==
    /\ variant \in { "local", "remote" }
    /\ clock = 1
    /\ currentUser = Some(IF variant = "local"
                          THEN [id |-> << 65, 49 >>, name |-> "Tanaka",
                                registeredAt |-> "iso"]
                          ELSE SessionUser(<< 65, 49 >>, "Tanaka"))
    /\ slot = currentUser
    /\ records = <<>>
    /\ localRecords = IF variant = "local" THEN Some(<<>>) ELSE Null
    /\ users = [u \in DocIds |->
                   IF variant = "remote"
                   THEN Some(NewUser(u, "Tanaka", RegisteredPassword)) ELSE Null]
    /\ students = [u \in DocIds |->
                      IF variant = "remote" /\ u = << 65, 49 >>
                      THEN Some(StudentDoc(u, "Tanaka", <<>>)) ELSE Null]
    /\ section = "main"
    /\ viewRecords = <<>>
    /\ toast = "deleted"
    /\ pending = <<>>
    /\ loginBusy = FALSE
    /\ regBusy = FALSE
    /\ submitBusy = FALSE
    /\ faults = 0
    /\ created = MaxSubmits - 1
    /\ peer = PeerIdle

\* one submission with counts of RateCounts, and the completion of its push
NextRate ==
    \/ \E a \in RateCounts, c \in RateCounts :
          LocalRecordSubmit("anatomy", DecimalText(a), DecimalText(c), TRUE)
    \/ \E a \in RateCounts, c \in RateCounts :
          handleRecordSubmit("anatomy", DecimalText(a), DecimalText(c))
    \/ \E i \in 1..Len(pending) : PushDone(i, TRUE)

SpecRate == InitRate /\ [][NextRate]_vars

\* C10: every record in memory or in the store has rate 0 when attempted is
\* 0, and otherwise the integer nearest to 100 * correct / attempted, a half
\* counting upwards: rate - 1/2 <= 100 * correct / attempted < rate + 1/2;
\* and 0 <= rate <= 100.
C10_RateIsRoundedPercentage ==
    \A list \in { records } \cup StoredLists :
        \A k \in 1..Len(list) :
            LET r == list[k]
            IN  /\ 0 <= r.rate /\ r.rate <= 100
                /\ r.attempted = 0 => r.rate = 0
                /\ r.attempted > 0 =>
                      /\ (2 * r.rate - 1) * r.attempted <= 200 * r.correct
                      /\ 200 * r.correct < (2 * r.rate + 1) * r.attempted

(* --------------------------- session restore -------------------------- *)

\* The page has just been opened and loadUser / loadCurrentUser has run on
\* what the browser's kokushi_user slot held: nothing, the user A1 or the user
\* B2.  In the remote variant the users collection holds A1 only: B2's
\* document has been removed from the collection, which is administered
\* outside the application, while the browser kept the slot.
InitRestore ==
    /\ variant \in { "local", "remote" }
    /\ clock = 1
    /\ slot \in { Null } \cup
                { Some(IF variant = "local"
                       THEN [id |-> u, name |-> "Tanaka", registeredAt |-> "iso"]
                       ELSE SessionUser(u, "Tanaka")) : u \in DocIds }
    /\ currentUser = slot
    /\ records = <<>>
    /\ localRecords = Null
    /\ users = [u \in DocIds |->
                   IF variant = "remote" /\ u = << 65, 49 >>
                   THEN Some(NewUser(u, "Tanaka", RegisteredPassword)) ELSE Null]
    /\ students = [u \in DocIds |->
                      IF variant = "remote" /\ u = << 65, 49 >>
                      THEN Some(StudentDoc(u, "Tanaka", <<>>)) ELSE Null]
    /\ section = IF IsNull(slot) THEN "auth" ELSE "main"
    /\ viewRecords = <<>>
    /\ toast = "none"
    /\ pending = IF variant = "remote" /\ ~IsNull(slot)
                 THEN << Task("pull", Val(slot).id, "", <<>>, <<>>, "none") >>
                 ELSE <<>>
    /\ loginBusy = FALSE
    /\ regBusy = FALSE
    /\ submitBusy = FALSE
    /\ faults = 0
    /\ created = 0
    /\ peer = PeerIdle

\* page loads, logins and logouts
NextRestore ==
    \/ Tick
    \/ LocalPageLoad
    \/ \E rawId \in RawIds, rawName \in NameInputs : LocalRegistration(rawId, rawName)
    \/ \E confirmed \in BOOLEAN : LocalLogout(confirmed)
    \/ RemotePageLoad
    \/ \E rawId \in RawIds, password \in PasswordInputs : handleLogin(rawId, password)
    \/ \E confirmed \in BOOLEAN : handleLogout(confirmed)
    \/ \E i \in 1..Len(pending), ok \in BOOLEAN :
          \/ LoginGetDone(i, ok)
          \/ PullDone(i, ok)

SpecRestore == InitRestore /\ [][NextRestore]_vars

\* C11: a page load with an empty session slot leaves no current user and the
\* auth section on display; and once a restore has run to its end (no store
\* call in flight) in the remote variant, the slot and the current user name
\* only users that the users collection holds.
C11_RestoreRejectsUnknownUser ==
    /\ [][ (IsNull(slot) /\ (LocalPageLoad \/ RemotePageLoad)) =>
               (IsNull(currentUser') /\ IsNull(slot') /\ section' = "auth")
         ]_vars
    /\ []( (variant = "remote" /\ pending = <<>>) =>
               /\ ~IsNull(slot) => ~IsNull(users[Val(slot).id])
               /\ ~IsNull(currentUser) => ~IsNull(users[Val(currentUser).id]) )

(* ------------------------------- logout ------------------------------- *)

\* C12: a confirmed logout leaves no current user, an empty session slot and
\* an empty in-memory record list; a declined one leaves all three as they
\* were; neither changes the stored records or the user documents.
C12_LogoutClearsOnlyWhenConfirmed ==
    [][ \A confirmed \in BOOLEAN :
            (LocalLogout(confirmed) \/ handleLogout(confirmed)) =>
                /\ confirmed =>
                      (IsNull(currentUser') /\ IsNull(slot') /\ records' = <<>>)
                /\ ~confirmed => UNCHANGED << currentUser, slot, records >>
                /\ UNCHANGED << localRecords, users, students >>
      ]_vars

(* --------------------- registration and login ------------------------- *)

\* every handler of the auth section, and logout and page load, from the
\* state in which nobody has registered yet
NextAuth ==
    \/ LocalPageLoad
    \/ \E rawId \in RawIds, rawName \in NameInputs : LocalRegistration(rawId, rawName)
    \/ \E confirmed \in BOOLEAN : LocalLogout(confirmed)
    \/ RemotePageLoad
    \/ \E rawId \in RawIds, password \in PasswordInputs : handleLogin(rawId, password)
    \/ \E rawId \in RawIds, rawName \in NameInputs, password \in PasswordInputs,
          passwordConfirm \in PasswordInputs :
          handleRegistration(rawId, rawName, password, passwordConfirm)
    \/ \E confirmed \in BOOLEAN : handleLogout(confirmed)
    \/ \E i \in 1..Len(pending), ok \in BOOLEAN :
          \/ LoginGetDone(i, ok)
          \/ PullDone(i, ok)
          \/ RegGetDone(i, ok)
          \/ RegSetUserDone(i, ok)
          \/ RegSetStudentsDone(i, ok)

SpecAuth == Init /\ [][NextAuth]_vars

\* C13: when handleRegistration has looked up an id whose users document
\* exists, it reports a duplicate and stops: it issues no write and changes
\* neither the user documents, the record documents, the current user nor
\* the session slot; and the writes of a registration only ever create the
\* two documents, they never replace an existing one.
C13_DuplicateRegistrationRejected ==
    [][ \A i \in 1..Len(pending) :
            /\ (RegGetDone(i, TRUE) /\ ~IsNull(users[pending[i].uid])) =>
                  /\ toast' = "duplicateUser"
                  /\ pending' = Without(i)
                  /\ UNCHANGED << users, students, currentUser, slot, section, records >>
            /\ RegSetUserDone(i, TRUE) => IsNull(users[pending[i].uid])
            /\ RegSetStudentsDone(i, TRUE) => IsNull(students[pending[i].uid])
      ]_vars

\* a registration for the registered id A1 has just been turned away
C13_Witness ==
    /\ toast = "duplicateUser"
    /\ ~IsNull(users[<< 65, 49 >>])
    /\ IsNull(currentUser)
    /\ ~regBusy

\* C14: when handleLogin has looked up an id while no write to its users
\* document is in flight, then: if the document does not exist, or the
\* checksum of the password differs from its passwordHash, the login fails
\* and current user, session slot and in-memory records are unchanged;
\* otherwise the current user and the slot become the document's { id, name }.
C14_LoginChecksIdAndPassword ==
    [][ \A i \in 1..Len(pending) :
            ( /\ LoginGetDone(i, TRUE)
              /\ \A j \in 1..Len(pending) :
                    ~(pending[j].kind = "regSetUser" /\ pending[j].uid = pending[i].uid) ) =>
                LET stored == users[pending[i].uid]
                IN  IF IsNull(stored)
                    THEN /\ toast' = "unknownUser"
                         /\ UNCHANGED << currentUser, slot, records, section >>
                    ELSE IF simpleHash(pending[i].pw) # Val(stored).passwordHash
                    THEN /\ toast' = "wrongPassword"
                         /\ UNCHANGED << currentUser, slot, records, section >>
                    ELSE /\ currentUser' = Some([id |-> Val(stored).id,
                                                 name |-> Val(stored).name])
                         /\ slot' = currentUser'
                         /\ section' = "main"
      ]_vars

\* a login with a wrong password for the registered id A1 has just failed
C14_Witness ==
    /\ toast = "wrongPassword"
    /\ ~IsNull(users[<< 65, 49 >>])
    /\ IsNull(currentUser)
    /\ IsNull(slot)
    /\ ~loginBusy

(* --------------------------- id normalization ------------------------- *)

\* C15: the three forms "a1", full-width "ａ１" and " A1 " of one id are
\* the same id wherever the program takes an id: a registration of the local
\* variant makes A1 the current user's id, and a login or a registration of
\* the remote variant looks up users/A1; and normalizing a normalized id
\* changes nothing.
C15_IdFormsAreEquivalent ==
    [][ LET forms == { << 97, 49 >>, << 65345, 65297 >>, << 32, 65, 49, 32 >> }
            id == << 65, 49 >>
            Issued(kind) == /\ Len(pending') = Len(pending) + 1
                            /\ pending'[Len(pending')].kind = kind
        IN  /\ \A rawId \in forms, rawName \in NameInputs :
                  (LocalRegistration(rawId, rawName) /\ ~IsNull(currentUser')) =>
                      Val(currentUser').id = id
            /\ \A rawId \in forms, password \in PasswordInputs :
                  (handleLogin(rawId, password) /\ Issued("loginGet")) =>
                      pending'[Len(pending')].uid = id
            /\ \A rawId \in forms, rawName \in NameInputs, password \in PasswordInputs :
                  (handleRegistration(rawId, rawName, password, password)
                      /\ Issued("regGet")) =>
                      pending'[Len(pending')].uid = id
            /\ \A rawId \in RawIds : normalizeId(normalizeId(rawId)) = normalizeId(rawId)
      ]_vars

(* ---------------------------- session slot ---------------------------- *)

\* C16: whenever the session slot holds a user, it holds the two properties
\* id and name of that user and nothing else.
C16_SlotHoldsIdAndNameOnly ==
    ~IsNull(slot) => DOMAIN Val(slot) = { "id", "name" }

(* ----------------------------- statistics ----------------------------- *)

RECURSIVE ReduceSum(_, _, _)
\* list.reduce((sum, r) => sum + r[property], sum)
ReduceSum(list, property, sum) ==
    IF list = <<>> THEN sum
    ELSE ReduceSum(Tail(list), property, sum + Head(list)[property])

\* updateStats: the four numbers it computes from the list (before
\* toLocaleString and the "%" suffix turn them into text)
updateStats(list) ==
    LET totalAttempted == ReduceSum(list, "attempted", 0)
        totalCorrect == ReduceSum(list, "correct", 0)
    IN  [ totalAttempted |-> totalAttempted,
          totalCorrect |-> totalCorrect,
          avgRate |-> IF totalAttempted > 0
                      THEN RoundPercent(totalCorrect, totalAttempted) ELSE 0,
          totalRecords |-> Len(list) ]

\* C17: the statistics of the list on display are the sum of attempted, the
\* sum of correct, the number of entries, and as rate 0 when the sum of
\* attempted is 0 and otherwise the integer nearest to 100 * correct sum /
\* attempted sum, a half counting upwards.
C17_StatsAreSumsAndRoundedRate ==
    LET list == viewRecords
        n == Len(list)
        attempted[k \in 0..n] == IF k = 0 THEN 0 ELSE attempted[k - 1] + list[k].attempted
        correct[k \in 0..n] == IF k = 0 THEN 0 ELSE correct[k - 1] + list[k].correct
        stats == updateStats(list)
    IN  /\ stats.totalAttempted = attempted[n]
        /\ stats.totalCorrect = correct[n]
        /\ stats.totalRecords = n
        /\ attempted[n] = 0 => stats.avgRate = 0
        /\ attempted[n] > 0 =>
              /\ (2 * stats.avgRate - 1) * attempted[n] <= 200 * correct[n]
              /\ 200 * correct[n] < (2 * stats.avgRate + 1) * attempted[n]

(* -------------------------------- chart ------------------------------- *)

\* the number of records updateChart keeps: slice(-20)
ChartWindow == 20

\* array.reverse(), on the copy that slice() made
Reverse(list) == [k \in 1..Len(list) |-> list[Len(list) + 1 - k]]

\* array.slice(-count): the last count entries
SliceLast(list, count) ==
    SubSeq(list, IF Len(list) > count THEN Len(list) - count + 1 ELSE 1, Len(list))

\* chartData with slice(0, 20) in the place of slice(-20)
chartDataFirst(list) ==
    SubSeq(Reverse(list), 1, IF Len(list) > ChartWindow THEN ChartWindow ELSE Len(list))

\* updateChart: const chartData = records.slice().reverse().slice(-20)
chartData(list) == SliceLast(Reverse(list), ChartWindow)

\* updateChart: the labels and the data it hands to the chart
updateChart(list) ==
    [ labels |-> [k \in 1..Len(chartData(list)) |->
                     << chartData(list)[k].date, chartData(list)[k].time >>],
      data |-> [k \in 1..Len(chartData(list)) |-> chartData(list)[k].rate] ]

\* The list of count records the user has when every eight submissions in a
\* row fell on one reading of the clock: newest first, with timestamps 1
\* (eight times), 2 (eight times), ... from the oldest on
ChartList(user, count) ==
    [k \in 1..count |->
        IF variant = "local"
        THEN LocalRecord(user, "anatomy", 2, 1, ((count - k) \div 8) + 1)
        ELSE RemoteRecord(user, "anatomy", 2, 1, ((count - k) \div 8) + 1)]

\* A state of a session of user A1 who has stored between 0 and
\* MaxChartRecords records, the last of them at the present reading of the
\* clock, and has them on display; one more record can be created.
InitChart ==
    /\ variant \in { "local", "remote" }
    /\ currentUser = Some(IF variant = "local"
                          THEN [id |-> << 65, 49 >>, name |-> "Tanaka",
                                registeredAt |-> "iso"]
                          ELSE SessionUser(<< 65, 49 >>, "Tanaka"))
    /\ slot = currentUser
    /\ \E count \in 0..MaxChartRecords :
          /\ records = ChartList(Val(currentUser), count)
          /\ clock = IF count = 0 THEN 1 ELSE ((count - 1) \div 8) + 1
    /\ localRecords = IF variant = "local" THEN Some(records) ELSE Null
    /\ users = [u \in DocIds |->
                   IF variant = "remote"
                   THEN Some(NewUser(u, "Tanaka", RegisteredPassword)) ELSE Null]
    /\ students = [u \in DocIds |->
                      IF variant = "remote" /\ u = << 65, 49 >>
                      THEN Some(StudentDoc(u, "Tanaka", records)) ELSE Null]
    /\ section = "main"
    /\ viewRecords = records
    /\ toast = "saved"
    /\ pending = <<>>
    /\ loginBusy = FALSE
    /\ regBusy = FALSE
    /\ submitBusy = FALSE
    /\ faults = 0
    /\ created = MaxSubmits - 1
    /\ peer = PeerIdle

\* one more submission, deletions, and the completion of their pushes
NextChart ==
    \/ \E stored \in BOOLEAN : LocalRecordSubmit("anatomy", << 50 >>, << 49 >>, stored)
    \/ \E recordId \in Deletable, stored \in BOOLEAN :
          LocalDeleteRecord(recordId, TRUE, stored)
    \/ handleRecordSubmit("anatomy", << 50 >>, << 49 >>)
    \/ \E recordId \in Deletable : deleteRecord(recordId, TRUE)
    \/ \E i \in 1..Len(pending), ok \in BOOLEAN : PushDone(i, ok)

SpecChart == InitChart /\ [][NextChart]_vars

\* C18: the chart drawn for the list on display has min(n, 20) points; its
\* records are records of the list, in ascending order of timestamp, and
\* every record of the list later than the earliest of them is among them
\* (so for n > 20 they are the 20 latest); the data are their rates.
C18_ChartShowsLatestTwenty ==
    LET list == viewRecords
        n == Len(list)
        shown == chartData(list)
        m == Len(shown)
        Count(seq, r) == Cardinality({ k \in 1..Len(seq) : seq[k] = r })
    IN  /\ m = IF n > 20 THEN 20 ELSE n
        /\ \A k \in 1..m : Count(shown, shown[k]) <= Count(list, shown[k])
        /\ \A i, j \in 1..m : i < j => shown[i].timestamp <= shown[j].timestamp
        /\ \A k \in 1..n :
              (m > 0 /\ list[k].timestamp > shown[1].timestamp) =>
                  Count(shown, list[k]) = Count(list, list[k])
        /\ updateChart(list).data = [k \in 1..m |-> shown[k].rate]

\* a list of more than 20 records with more than one timestamp is on display
C18_Witness ==
    /\ Len(viewRecords) > 20
    /\ viewRecords = records
    /\ viewRecords[1].timestamp > viewRecords[Len(viewRecords)].timestamp

\* C19: an export of a non-empty list writes one line per in-memory record,
\* in in-memory order, with the columns owner id, owner name, date, time,
\* field, attempted, correct, rate; the owner id column of a line is the id
\* the record's submitter had, as the submission wrote it.
C19_CsvRowsNameTheOwner ==
    [][(exportToCSV /\ toast' = "csvDownloaded") =>
          /\ Len(CsvRows(records)) = Len(records)
          /\ \A k \in 1..Len(records) :
                CsvRows(records)[k] =
                    << OwnerOf(records[k]), records[k].userName, records[k].date,
                       records[k].time, records[k].field, records[k].attempted,
                       records[k].correct, records[k].rate >>]_vars

\* C20: when the read of loadRecords for the current user is rejected, at
\* login or at page load, the session stands (current user, saved slot, main
\* section), the load error is the toast on screen, and the in-memory record
\* list is empty.
C20_FailedPullLeavesEmptySession ==
    [][\A i \in 1..Len(pending) :
          ( /\ PullDone(i, FALSE)
            /\ ~IsNull(currentUser)
            /\ Val(currentUser).id = pending[i].uid ) =>
              /\ ~IsNull(currentUser')
              /\ slot' = currentUser'
              /\ section' = "main"
              /\ toast' = "loadError"
              /\ records' = <<>>]_vars

\* C21: in the remote variant, whenever a user is logged in, no store call is
\* in flight and no store call has failed (so the last push, if any,
\* succeeded), the in-memory list is the record list of the document
\* students/{id} of the current user.
C21_ReadyMirrorsStore ==
    ( /\ variant = "remote"
      /\ ~IsNull(currentUser)
      /\ pending = <<>>
      /\ faults = 0 ) =>
        records = Pulled(students[Val(currentUser).id])

\* C22: in the remote variant, whenever the main section is shown for a
\* logged-in user and no store call is in flight, the list the totals, the
\* table and the chart were last computed from is the in-memory list.
C22_ViewShowsCurrentList ==
    ( /\ variant = "remote"
      /\ section = "main"
      /\ ~IsNull(currentUser)
      /\ pending = <<>> ) =>
        viewRecords = records

\* C23: in the remote variant every record of the in-memory list of a
\* logged-in user names that user in userId, and every record of the
\* document students/{u} names u in userId.
C23_RecordsBelongToTheirUser ==
    variant = "remote" =>
        /\ ~IsNull(currentUser) =>
              \A k \in 1..Len(records) : records[k].userId = Val(currentUser).id
        /\ \A u \in DocIds :
              \A k \in 1..Len(Pulled(students[u])) : Pulled(students[u])[k].userId = u

\* C24: while no store call has failed, the list a handler hands to
\* saveRecords for writing holds every record stored for the user so far (the
\* document students/{id} as the client reads it, its own writes in flight
\* included), except, in a confirmed deleteRecord, the records with the id
\* being deleted: a push drops a stored record only by deleting it.
C24_PushKeepsStoredRecords ==
    [][ LET n == Len(pending')
            task == pending'[n]
            before == Pulled(StudentsView(task.uid, Len(pending)))
            Dropped == { k \in 1..Len(before) :
                            \A j \in 1..Len(task.payload) : task.payload[j] # before[k] }
        IN  ( /\ variant = "remote"
              /\ faults = 0
              /\ n = Len(pending) + 1
              /\ task.kind = "push" ) =>
                IF task.then = "submit"
                THEN Dropped = {}
                ELSE \E recordId \in Deletable :
                        /\ deleteRecord(recordId, TRUE)
                        /\ \A k \in Dropped : before[k].id = recordId
      ]_vars

\* C25: when handleRegistration ends with the registration-error toast
\* because one of its store calls was rejected, there is no current user and
\* the session slot is empty; when it ends with the success toast, the
\* documents users/{id} and students/{id} (with an empty record list) exist
\* and the current user and the slot are that id and name.
C25_RegistrationAllOrNothing ==
    [][ \A i \in 1..Len(pending) :
            /\ ( \/ RegGetDone(i, FALSE)
                 \/ RegSetUserDone(i, FALSE)
                 \/ RegSetStudentsDone(i, FALSE) ) =>
                  /\ toast' = "regError"
                  /\ IsNull(currentUser')
                  /\ IsNull(slot')
            /\ (RegSetStudentsDone(i, TRUE) /\ toast' = "registered") =>
                  /\ ~IsNull(users'[pending[i].uid])
                  /\ students'[pending[i].uid] =
                        Some(StudentDoc(pending[i].uid, pending[i].name, <<>>))
                  /\ currentUser' = Some(SessionUser(pending[i].uid, pending[i].name))
                  /\ slot' = currentUser'
      ]_vars

(* ------------------- two browsers registering one id ------------------ *)

\* nobody has registered yet and both browsers show the auth section
InitShared == Init /\ variant = "remote"

\* registrations in both browsers, and the first browser's submissions
NextShared ==
    \/ \E rawId \in RawIds, rawName \in NameInputs, password \in PasswordInputs,
          passwordConfirm \in PasswordInputs :
          handleRegistration(rawId, rawName, password, passwordConfirm)
    \/ handleRecordSubmit("anatomy", << 50 >>, << 49 >>)
    \/ \E i \in 1..Len(pending), ok \in BOOLEAN :
          \/ RegGetDone(i, ok)
          \/ RegSetUserDone(i, ok)
          \/ RegSetStudentsDone(i, ok)
          \/ PushDone(i, ok)
    \/ PeerNext

SpecShared == InitShared /\ [][NextShared]_vars

\* C26: a users document that exists is never written again, and a students
\* document that exists is not written again by a registration; and the two
\* browsers never both finish a registration of the same id with success.
C26_UserDocumentWrittenOnce ==
    /\ [][ /\ \A u \in DocIds : ~IsNull(users[u]) => users'[u] = users[u]
           /\ \A u \in DocIds :
                 ( /\ ~IsNull(students[u])
                   /\ \/ \E ok \in BOOLEAN : PeerSetStudentsDone(ok)
                      \/ \E i \in 1..Len(pending), ok \in BOOLEAN :
                            RegSetStudentsDone(i, ok) ) =>
                     students'[u] = students[u]
         ]_vars
    /\ [](~( /\ peer.at = "registered"
             /\ ~IsNull(currentUser)
             /\ Val(currentUser).id = peer.uid
             /\ section = "main" ))

====
